---------------------------- MODULE Spec2Model ----------------------------
(***************************************************************************)
(* A model of download_roms.py: the filename normaliser, the canonical    *)
(* map builder, the variant selector, filter_links, the download command  *)
(* and the unzip-and-cleanup step.                                        *)
(*                                                                        *)
(* Python strings are modelled as sequences of one-character strings, so  *)
(* that substring tests, regular expressions, split, lower, replace and   *)
(* strip are computed the way the code computes them.                     *)
(***************************************************************************)
EXTENDS Integers, Sequences, FiniteSets, TLC

VARIABLES
    pc,             \* position of the running function / command
    filename,       \* get_canonical_name: the input filename
    name,           \* get_canonical_name(filename)
    name2,          \* get_canonical_name(name)
    matches,        \* select_best_version: the candidate list
    best_version,   \* select_best_version: the returned link (or None)
    links,          \* filter_links / download_command: discovered links
    games,          \* requested titles, in file order
    region,         \* args.region
    canonical_map,  \* dict name -> links, as a sequence of items in insertion order
    gi,             \* index of the next game of the matching loop
    ratio,          \* similarity scores the fuzzy matcher gave, per game and name
    final_links,    \* filter_links: final_links before deduplication
    matched_games,  \* filter_links: the set of matched titles
    matched_links,  \* filter_links: the returned list(set(final_links))
    installed,      \* the external executables present on the PATH
    no_unzip,       \* args.no_unzip
    effects,        \* the external activities the command has performed so far
    reported,       \* the titles printed in the "could not find matches" list
    input_file,     \* the lines of the aria2c input file
    output_dir,     \* the archives present in the output directory
    zip_files,      \* unzip_and_cleanup: the archives listed at the start
    zi,             \* unzip_and_cleanup: index of the next archive
    attempts,       \* per archive, how many times the extractor was run on it
    outcome         \* per archive, the result of its extraction

nameVars == <<filename, name, name2>>
selVars  == <<matches, best_version>>
filtVars == <<links, games, region, canonical_map, gi, ratio, final_links,
              matched_games, matched_links>>
cmdVars  == <<installed, no_unzip, effects, reported, input_file>>
zipVars  == <<output_dir, zip_files, zi, attempts, outcome>>
vars == <<pc, nameVars, selVars, filtVars, cmdVars, zipVars>>

-----------------------------------------------------------------------------
(* Bounds of the model. *)

MaxTokens   == 3    \* tokens concatenated into a filename
MaxMatches  == 3    \* candidates handed to select_best_version
MaxLinks    == 3    \* links handed to filter_links
MaxGames    == 2    \* requested titles
MaxArchives == 3    \* archives in the output directory

(* Program constants. *)

BaseScore   == 100  \* score = 100
Penalty     == 50   \* score -= 50
StartScore  == -1   \* highest_score = -1
ScoreCutoff == 85   \* score_cutoff=85

-----------------------------------------------------------------------------
(* Python string primitives. *)

\* the value None; no string of characters equals it
None == <<"None">>

\* truthiness of an "str | None" value
Truthy(x) == x /= None /\ x /= <<>>

\* whitespace as matched by \s and removed by str.strip
IsSpace(c) == c \in {" ", "\t", "\n"}

IsDigit(c) == c \in {"0", "1", "2", "3", "4", "5", "6", "7", "8", "9"}

DigitVal(c) ==
    CASE c = "0" -> 0 [] c = "1" -> 1 [] c = "2" -> 2 [] c = "3" -> 3
      [] c = "4" -> 4 [] c = "5" -> 5 [] c = "6" -> 6 [] c = "7" -> 7
      [] c = "8" -> 8 [] c = "9" -> 9

Upper == <<"A","B","C","D","E","F","G","H","I","J","K","L","M",
           "N","O","P","Q","R","S","T","U","V","W","X","Y","Z">>
Lower == <<"a","b","c","d","e","f","g","h","i","j","k","l","m",
           "n","o","p","q","r","s","t","u","v","w","x","y","z">>

LowerChar(c) ==
    IF \E k \in 1..26 : Upper[k] = c
    THEN Lower[CHOOSE k \in 1..26 : Upper[k] = c]
    ELSE c

\* str.lower()
StrLower(s) == [k \in 1..Len(s) |-> LowerChar(s[k])]

\* s[i:] with a 1-based i
From(s, i) == SubSeq(s, i, Len(s))

\* s.startswith(p)
StartsWith(s, p) == Len(p) <= Len(s) /\ SubSeq(s, 1, Len(p)) = p

\* "sub in s"
Contains(s, sub) == \E k \in 1..(Len(s) + 1) : StartsWith(From(s, k), sub)

\* s.split("/")[-1]
LastSegment(s) ==
    LET slashes == {k \in 1..Len(s) : s[k] = "/"}
    IN  IF slashes = {} THEN s
        ELSE From(s, (CHOOSE k \in slashes : \A m \in slashes : m <= k) + 1)

\* str.strip()
RECURSIVE LStrip(_)
LStrip(s) == IF s /= <<>> /\ IsSpace(Head(s)) THEN LStrip(Tail(s)) ELSE s

RECURSIVE RStrip(_)
RStrip(s) ==
    IF s /= <<>> /\ IsSpace(s[Len(s)]) THEN RStrip(SubSeq(s, 1, Len(s) - 1)) ELSE s

Strip(s) == RStrip(LStrip(s))

\* the number of leading characters of s that satisfy \s
RECURSIVE LeadingSpaces(_)
LeadingSpaces(s) ==
    IF s /= <<>> /\ IsSpace(Head(s)) THEN 1 + LeadingSpaces(Tail(s)) ELSE 0

\* the number of leading characters of s that satisfy \d
RECURSIVE LeadingDigits(_)
LeadingDigits(s) ==
    IF s /= <<>> /\ IsDigit(Head(s)) THEN 1 + LeadingDigits(Tail(s)) ELSE 0

\* int() of a string of decimal digits
RECURSIVE ParseInt(_)
ParseInt(ds) ==
    IF ds = <<>> THEN 0
    ELSE 10 * ParseInt(SubSeq(ds, 1, Len(ds) - 1)) + DigitVal(ds[Len(ds)])

-----------------------------------------------------------------------------
(* get_canonical_name *)

DotZip == <<".", "z", "i", "p">>

\* The end of a match of \s*\([^)]*\) anchored at the start of s, or 0:
\* the leading whitespace, then "(", then everything up to the first ")".
TagMatchEnd(s) ==
    LET w      == LeadingSpaces(s)
        closes == {k \in (w + 2)..Len(s) : s[k] = ")"}
    IN  IF w < Len(s) /\ s[w + 1] = "(" /\ closes /= {}
        THEN CHOOSE k \in closes : \A m \in closes : k <= m
        ELSE 0

\* re.sub(r'\s*\([^)]*\)', '', s): leftmost matches, removed left to right
RECURSIVE RemoveTags(_)
RemoveTags(s) ==
    IF s = <<>> THEN <<>>
    ELSE LET e == TagMatchEnd(s)
         IN  IF e > 0 THEN RemoveTags(From(s, e + 1))
             ELSE <<Head(s)>> \o RemoveTags(Tail(s))

\* s.replace(".zip", ""): every non-overlapping occurrence, left to right
RECURSIVE RemoveDotZip(_)
RemoveDotZip(s) ==
    IF s = <<>> THEN <<>>
    ELSE IF StartsWith(s, DotZip) THEN RemoveDotZip(From(s, Len(DotZip) + 1))
    ELSE <<Head(s)>> \o RemoveDotZip(Tail(s))

get_canonical_name(f) == Strip(RemoveDotZip(RemoveTags(f)))

-----------------------------------------------------------------------------
(* select_best_version *)

RevOpen == <<"(", "r", "e", "v", " ">>

\* The group of a match of \(rev (\d+)\) anchored at the start of s, or None.
RevMatchAt(s) ==
    IF ~StartsWith(s, RevOpen) THEN None
    ELSE LET rest == From(s, Len(RevOpen) + 1)
             d    == LeadingDigits(rest)
         IN  IF d > 0 /\ d < Len(rest) /\ rest[d + 1] = ")"
             THEN SubSeq(rest, 1, d)
             ELSE None

\* re.search(r"\(rev (\d+)\)", s): group 1 of the leftmost match, or None
RECURSIVE RevSearch(_)
RevSearch(s) ==
    IF s = <<>> THEN None
    ELSE IF RevMatchAt(s) /= None THEN RevMatchAt(s)
    ELSE RevSearch(Tail(s))

PenaltyTags == { <<"(", "b", "e", "t", "a">>,
                 <<"(", "p", "r", "o", "t", "o">>,
                 <<"(", "s", "a", "m", "p", "l", "e", ")">> }

\* the score the loop body gives one candidate
Score(match) ==
    LET fname     == StrLower(LastSegment(match))
        penalised == \E tag \in PenaltyTags : Contains(fname, tag)
        rev_match == RevSearch(fname)
    IN  BaseScore - (IF penalised THEN Penalty ELSE 0)
                  + (IF rev_match /= None THEN ParseInt(rev_match) ELSE 0)

\* the "for match in matches" loop from index i on, with its two locals
RECURSIVE SelectLoop(_, _, _, _)
SelectLoop(ms, i, best_match, highest_score) ==
    IF i > Len(ms) THEN best_match
    ELSE IF Score(ms[i]) > highest_score
         THEN SelectLoop(ms, i + 1, ms[i], Score(ms[i]))
         ELSE SelectLoop(ms, i + 1, best_match, highest_score)

\* faulty variant: ">=" instead of ">", the last of several best candidates wins
RECURSIVE SelectLoopGe(_, _, _, _)
SelectLoopGe(ms, i, best_match, highest_score) ==
    IF i > Len(ms) THEN best_match
    ELSE IF Score(ms[i]) >= highest_score
         THEN SelectLoopGe(ms, i + 1, ms[i], Score(ms[i]))
         ELSE SelectLoopGe(ms, i + 1, best_match, highest_score)

select_best_version_ge(ms) ==
    IF ms = <<>> THEN None ELSE SelectLoopGe(ms, 1, None, StartScore)

\* faulty variant: the running maximum starts at the base score instead of -1
select_best_version_base(ms) ==
    IF ms = <<>> THEN None ELSE SelectLoop(ms, 1, None, BaseScore)

select_best_version(ms) ==
    IF ms = <<>> THEN None ELSE SelectLoop(ms, 1, None, StartScore)

-----------------------------------------------------------------------------
(* Values of the variables a specification does not use. *)

NamesIdle  == filename = <<>> /\ name = None /\ name2 = None
SelectIdle == matches = <<>> /\ best_version = None
FilterIdle ==
    /\ links = <<>> /\ games = <<>> /\ region = <<>>
    /\ canonical_map = <<>> /\ gi = 1 /\ ratio = <<>>
    /\ final_links = <<>> /\ matched_games = {} /\ matched_links = <<>>
CmdIdle    ==
    /\ installed = {} /\ no_unzip = FALSE /\ effects = {} /\ reported = {}
    /\ input_file = <<>>
ZipIdle    ==
    /\ output_dir = {} /\ zip_files = <<>> /\ zi = 1
    /\ attempts = <<>> /\ outcome = <<>>

\* all sequences over S of length at most n
SeqsUpTo(S, n) == UNION {[1..k -> S] : k \in 0..n}

\* the concatenation of a sequence of strings
RECURSIVE Concat(_)
Concat(ss) == IF ss = <<>> THEN <<>> ELSE Head(ss) \o Concat(Tail(ss))

-----------------------------------------------------------------------------
(* Specification SpecNames: get_canonical_name applied to a filename, and  *)
(* applied again to its own result.                                       *)

NameTokens == { <<"G">>, <<" ">>, <<"(">>, <<")">>, DotZip,
                <<".", "z">>, <<"i", "p">> }

Filenames == {Concat(ts) : ts \in SeqsUpTo(NameTokens, MaxTokens)}

InitNames ==
    /\ pc = "name"
    /\ filename \in Filenames
    /\ name = None /\ name2 = None
    /\ SelectIdle /\ FilterIdle /\ CmdIdle /\ ZipIdle

Canonicalize ==
    /\ pc = "name"
    /\ name' = get_canonical_name(filename)
    /\ pc' = "named"
    /\ UNCHANGED <<filename, name2, selVars, filtVars, cmdVars, zipVars>>

CanonicalizeAgain ==
    /\ pc = "named"
    /\ name2' = get_canonical_name(name)
    /\ pc' = "renamed"
    /\ UNCHANGED <<filename, name, selVars, filtVars, cmdVars, zipVars>>

NextNames == Canonicalize \/ CanonicalizeAgain

SpecNames == InitNames /\ [][NextNames]_vars

\* C10: get_canonical_name is idempotent: applying it to its own result
\* returns that result unchanged, for every filename.
CanonicalNameIdempotent == pc = "renamed" => name2 = name

-----------------------------------------------------------------------------
(* Specification SpecSelect: select_best_version applied to a list.       *)

Host == <<"h", ":", "/", "/", "x", "/">>
tX     == <<"X">>
tUSA   == <<" ", "(", "U", "S", "A", ")">>
tEU    == <<" ", "(", "E", "U", ")">>
tRev1  == <<" ", "(", "R", "e", "v", " ", "1", ")">>
tREV1  == <<" ", "(", "R", "E", "V", " ", "1", ")">>
tRev2  == <<" ", "(", "R", "e", "v", " ", "2", ")">>
tRev60 == <<" ", "(", "R", "e", "v", " ", "6", "0", ")">>
tBeta  == <<" ", "(", "B", "e", "t", "a", " ", "2", ")">>
tProto == <<" ", "(", "P", "r", "o", "t", "o", ")">>
tBetaDir == <<"(", "b", "e", "t", "a", ")", "/">>

Candidates ==
    { Host \o tX \o tUSA \o DotZip,
      Host \o tX \o tUSA \o tRev1 \o DotZip,
      Host \o tX \o tUSA \o tREV1 \o DotZip,
      Host \o tX \o tUSA \o tRev2 \o tRev1 \o DotZip,
      Host \o tX \o tUSA \o tBeta \o DotZip,
      Host \o tX \o tProto \o tRev60 \o DotZip,
      Host \o tBetaDir \o tX \o tUSA \o DotZip }

InitSelect ==
    /\ pc = "select"
    /\ matches \in SeqsUpTo(Candidates, MaxMatches)
    /\ best_version = None
    /\ NamesIdle /\ FilterIdle /\ CmdIdle /\ ZipIdle

SelectNone ==
    /\ pc = "select"
    /\ matches = <<>>
    /\ best_version' = select_best_version(matches)
    /\ pc' = "selected"
    /\ UNCHANGED <<matches, nameVars, filtVars, cmdVars, zipVars>>

SelectBest ==
    /\ pc = "select"
    /\ matches /= <<>>
    /\ best_version' = select_best_version(matches)
    /\ pc' = "selected"
    /\ UNCHANGED <<matches, nameVars, filtVars, cmdVars, zipVars>>

NextSelect == SelectNone \/ SelectBest

SpecSelect == InitSelect /\ [][NextSelect]_vars

\* The score as the claim states it: 100, minus 50 if the lowercased
\* filename contains "(beta", "(proto" or "(sample)", plus N for the first
\* "(rev N)" tag.
IsRevTagAt(s, k, n) ==
    /\ StartsWith(From(s, k), RevOpen)
    /\ n >= 1
    /\ k + Len(RevOpen) + n <= Len(s)
    /\ \A m \in 0..(n - 1) : IsDigit(s[k + Len(RevOpen) + m])
    /\ s[k + Len(RevOpen) + n] = ")"

RevTagStarts(s) == {k \in 1..Len(s) : \E n \in 1..Len(s) : IsRevTagAt(s, k, n)}

FirstRevNumber(s) ==
    IF RevTagStarts(s) = {} THEN 0
    ELSE LET k == CHOOSE a \in RevTagStarts(s) : \A b \in RevTagStarts(s) : a <= b
             n == CHOOSE c \in 1..Len(s) : IsRevTagAt(s, k, c)
         IN  ParseInt(SubSeq(s, k + Len(RevOpen), k + Len(RevOpen) + n - 1))

StatedScore(link) ==
    LET f == StrLower(LastSegment(link))
    IN  100 - (IF \E tag \in PenaltyTags : Contains(f, tag) THEN 50 ELSE 0)
            + FirstRevNumber(f)

StatedMax(ms) ==
    CHOOSE v \in {StatedScore(ms[k]) : k \in 1..Len(ms)} :
        \A k \in 1..Len(ms) : StatedScore(ms[k]) <= v

\* C1: for a non-empty list, select_best_version returns the candidate
\* whose score is the maximum over the list, the first such candidate in
\* input order when several share the maximum.
SelectsFirstMaximum ==
    (pc = "selected" /\ matches /= <<>>) =>
        \E i \in 1..Len(matches) :
            /\ best_version = matches[i]
            /\ StatedScore(matches[i]) = StatedMax(matches)
            /\ \A j \in 1..(i - 1) : StatedScore(matches[j]) < StatedMax(matches)

\* a list in which two different candidates share the maximum was selected from
SelectsFirstMaximumWitness ==
    /\ pc = "selected"
    /\ Len(matches) >= 2
    /\ \E i, j \in 1..Len(matches) :
        /\ i < j
        /\ matches[i] /= matches[j]
        /\ StatedScore(matches[i]) = StatedMax(matches)
        /\ StatedScore(matches[j]) = StatedMax(matches)
    /\ best_version /= None

\* C2: select_best_version returns None if and only if its input list is
\* empty; for a non-empty list it returns an element of the list.
SelectsNoneOnlyWhenEmpty ==
    pc = "selected" =>
        /\ (best_version = None <=> matches = <<>>)
        /\ (matches /= <<>> => \E i \in 1..Len(matches) : best_version = matches[i])

\* a list whose candidates all carry a penalty tag was selected from
SelectsNoneOnlyWhenEmptyWitness ==
    /\ pc = "selected"
    /\ matches /= <<>>
    /\ \A i \in 1..Len(matches) : StatedScore(matches[i]) < 100
    /\ best_version /= None

-----------------------------------------------------------------------------
(* build_canonical_map *)

\* region_str = f"({region})"
RegionStr(r) == <<"(">> \o r \o <<")">>

\* regional_links = [link for link in links if region_str in link]
RECURSIVE RegionalLinks(_, _)
RegionalLinks(ls, r) ==
    IF ls = <<>> THEN <<>>
    ELSE (IF Contains(Head(ls), RegionStr(r)) THEN <<Head(ls)>> ELSE <<>>)
         \o RegionalLinks(Tail(ls), r)

\* faulty variant: no region filter at all
AllLinks(ls, r) == ls

\* the position of key in the dict, or 0
KeyIndex(m, key) ==
    IF \E k \in 1..Len(m) : m[k].name = key
    THEN CHOOSE k \in 1..Len(m) : m[k].name = key
    ELSE 0

\* faulty variant: a link already in its group is not appended again
MapAppendOnce(m, link) ==
    LET key == get_canonical_name(LastSegment(link))
        k   == KeyIndex(m, key)
    IN  IF k = 0 THEN Append(m, [name |-> key, links |-> <<link>>])
        ELSE IF \E j \in 1..Len(m[k].links) : m[k].links[j] = link THEN m
        ELSE [m EXCEPT ![k].links = Append(@, link)]

\* one iteration of "for link in regional_links"
MapAppend(m, link) ==
    LET key == get_canonical_name(LastSegment(link))
        k   == KeyIndex(m, key)
    IN  IF k = 0 THEN Append(m, [name |-> key, links |-> <<link>>])
        ELSE [m EXCEPT ![k].links = Append(@, link)]

RECURSIVE MapLoop(_, _)
MapLoop(m, rl) == IF rl = <<>> THEN m ELSE MapLoop(MapAppend(m, Head(rl)), Tail(rl))

\* faulty variant: the map is built from every link, whatever its region
build_canonical_map_all(ls, r) == MapLoop(<<>>, AllLinks(ls, r))

build_canonical_map(ls, r) == MapLoop(<<>>, RegionalLinks(ls, r))

\* list(canonical_map.keys())
Keys(m) == [k \in 1..Len(m) |-> m[k].name]

\* canonical_map[key]
Lookup(m, key) == m[KeyIndex(m, key)].links

-----------------------------------------------------------------------------
(* filter_links *)

\* The scores the fuzzy scorer may give: below, at and above the cut-off.
ScoreVals == {ScoreCutoff - 1, ScoreCutoff, 100}

\* process.extractOne(game, names, score_cutoff=85), given the scores the
\* scorer gives game against each name: the first of the best-scoring
\* names, if its score reaches the cut-off, else None.
ExtractOne(names, row) ==
    LET ok == {k \in 1..Len(names) : row[names[k]] >= ScoreCutoff}
    IN  IF ok = {} THEN None
        ELSE names[CHOOSE k \in ok :
                      /\ \A m \in ok : row[names[m]] <= row[names[k]]
                      /\ \A m \in ok : m < k => row[names[m]] < row[names[k]]]

\* the orders in which list(set(...)) may enumerate a set
Perms(S) ==
    {f \in [1..Cardinality(S) -> S] : \A a, b \in 1..Cardinality(S) : a /= b => f[a] /= f[b]}

SeqRange(q) == {q[k] : k \in 1..Len(q)}

\* the scores of the current game: drawn by the scorer, the same ones
\* whenever the same title is scored again
Rows == [SeqRange(Keys(canonical_map)) -> ScoreVals]

RowFor(game, row) == game \in DOMAIN ratio => row = ratio[game]

Remember(game, row) == IF game \in DOMAIN ratio THEN ratio ELSE (game :> row) @@ ratio

\* canonical_map = build_canonical_map(links, region) and the locals
BuildCanonicalMap ==
    /\ pc = "filter"
    /\ canonical_map' = build_canonical_map(links, region)
    /\ final_links' = <<>>
    /\ matched_games' = {}
    /\ gi' = 1
    /\ effects' = effects \cup {"match"}
    /\ pc' = "match"
    /\ UNCHANGED <<links, games, region, ratio, matched_links, installed, no_unzip,
                   reported, input_file, nameVars, selVars, zipVars>>

\* one iteration of "for game in games" in which extractOne finds a match
GameMatched ==
    /\ pc = "match"
    /\ gi <= Len(games)
    /\ \E row \in Rows :
        /\ RowFor(games[gi], row)
        /\ ExtractOne(Keys(canonical_map), row) /= None
        /\ ratio' = Remember(games[gi], row)
        /\ LET best_canonical_name == ExtractOne(Keys(canonical_map), row)
               all_versions == Lookup(canonical_map, best_canonical_name)
               best == select_best_version(all_versions)
           IN  IF Truthy(best)
               THEN /\ final_links' = Append(final_links, best)
                    /\ matched_games' = matched_games \cup {games[gi]}
               ELSE UNCHANGED <<final_links, matched_games>>
    /\ gi' = gi + 1
    /\ UNCHANGED <<pc, links, games, region, canonical_map, matched_links, cmdVars,
                   nameVars, selVars, zipVars>>

\* one iteration of "for game in games" in which extractOne returns None
GameUnmatched ==
    /\ pc = "match"
    /\ gi <= Len(games)
    /\ \E row \in Rows :
        /\ RowFor(games[gi], row)
        /\ ExtractOne(Keys(canonical_map), row) = None
        /\ ratio' = Remember(games[gi], row)
    /\ gi' = gi + 1
    /\ UNCHANGED <<pc, links, games, region, canonical_map, final_links,
                   matched_games, matched_links, cmdVars, nameVars, selVars, zipVars>>

\* faulty variant: final_links returned as it is
ReturnLinksAsIs ==
    /\ pc = "match"
    /\ gi > Len(games)
    /\ matched_links' = final_links
    /\ pc' = "matched"
    /\ UNCHANGED <<links, games, region, canonical_map, gi, ratio, final_links,
                   matched_games, cmdVars, nameVars, selVars, zipVars>>

\* return list(set(final_links)), matched_games
ReturnLinks ==
    /\ pc = "match"
    /\ gi > Len(games)
    /\ matched_links' \in Perms(SeqRange(final_links))
    /\ pc' = "matched"
    /\ UNCHANGED <<links, games, region, canonical_map, gi, ratio, final_links,
                   matched_games, cmdVars, nameVars, selVars, zipVars>>

(* Specification SpecFilter: filter_links applied to a link list, a list  *)
(* of requested titles and a region.                                      *)

tA == <<"A">>
tB == <<"B">>
tUSADir == <<"(", "U", "S", "A", ")", "/">>

LinkUniverse ==
    { Host \o tA \o tUSA \o DotZip,
      Host \o tA \o tUSA \o tRev1 \o DotZip,
      Host \o tB \o tEU \o DotZip,
      Host \o tUSADir \o tB \o tEU \o DotZip }

Titles == {tA, tB}

Regions == { <<"U", "S", "A">>, <<"E", "U">> }

InitFilter ==
    /\ pc = "filter"
    /\ links \in SeqsUpTo(LinkUniverse, MaxLinks)
    /\ games \in SeqsUpTo(Titles, MaxGames)
    /\ region \in Regions
    /\ canonical_map = <<>> /\ gi = 1 /\ ratio = <<>>
    /\ final_links = <<>> /\ matched_games = {} /\ matched_links = <<>>
    /\ NamesIdle /\ SelectIdle /\ CmdIdle /\ ZipIdle

NextFilter == BuildCanonicalMap \/ GameMatched \/ GameUnmatched \/ ReturnLinks

SpecFilter == InitFilter /\ [][NextFilter]_vars

\* C4: the canonical map holds no link that lacks "(region)", and holds
\* every link that has it, once per occurrence in the input, under the
\* canonical name of its filename, each group in input order.
CanonicalMapGroupsRegionalLinks ==
    pc \in {"match", "matched"} =>
        LET tag == RegionStr(region)
            KeyOf(l) == get_canonical_name(LastSegment(l))
            Group(key) == SelectSeq(links, LAMBDA l : Contains(l, tag) /\ KeyOf(l) = key)
        IN  /\ \A k \in 1..Len(canonical_map) :
                 /\ \A j \in 1..Len(canonical_map[k].links) :
                        Contains(canonical_map[k].links[j], tag)
                 /\ canonical_map[k].links = Group(canonical_map[k].name)
                 /\ \A m \in 1..Len(canonical_map) :
                        canonical_map[m].name = canonical_map[k].name => m = k
            /\ \A i \in 1..Len(links) :
                 Contains(links[i], tag) =>
                     \E k \in 1..Len(canonical_map) : canonical_map[k].name = KeyOf(links[i])

\* a map built from a list that holds one regional link twice and a link
\* of another region
CanonicalMapGroupsRegionalLinksWitness ==
    /\ pc = "match"
    /\ \E k \in 1..Len(canonical_map) :
          /\ Len(canonical_map[k].links) = 2
          /\ canonical_map[k].links[1] = canonical_map[k].links[2]
    /\ \E i \in 1..Len(links) : ~Contains(links[i], RegionStr(region))

\* C3 as stated: the filename (last path segment) of every link of the
\* final list contains the region tag.
FinalLinkFilenamesHaveRegionTag ==
    pc = "matched" =>
        \A k \in 1..Len(matched_links) :
            Contains(LastSegment(matched_links[k]), RegionStr(region))

\* C3 as amended: every link of the final list contains the region tag
\* somewhere in the link, in its filename or in an earlier path segment.
FinalLinksHaveRegionTag ==
    pc = "matched" =>
        \A k \in 1..Len(matched_links) : Contains(matched_links[k], RegionStr(region))

\* a final list with a link whose tag is in a directory segment only
FinalLinksHaveRegionTagWitness ==
    /\ pc = "matched"
    /\ \E k \in 1..Len(matched_links) :
          /\ Contains(matched_links[k], RegionStr(region))
          /\ ~Contains(LastSegment(matched_links[k]), RegionStr(region))

-----------------------------------------------------------------------------
(* unzip_and_cleanup *)

\* zip_files = [f for f in output_path.iterdir() if f.suffix == ".zip"]
ListArchives ==
    /\ pc = "unzip"
    /\ zip_files' \in Perms(output_dir)
    /\ zi' = 1
    /\ attempts' = [a \in output_dir |-> 0]
    /\ outcome' = [a \in output_dir |-> "none"]
    /\ pc' = "unzipping"
    /\ UNCHANGED <<output_dir, nameVars, selVars, filtVars, cmdVars>>

\* subprocess.run(["unzip", ...], check=True) returns; zip_path.unlink()
ExtractOk ==
    /\ pc = "unzipping"
    /\ zi <= Len(zip_files)
    /\ attempts' = [attempts EXCEPT ![zip_files[zi]] = @ + 1]
    /\ outcome' = [outcome EXCEPT ![zip_files[zi]] = "extracted"]
    /\ output_dir' = output_dir \ {zip_files[zi]}
    /\ effects' = effects \cup {"unzip"}
    /\ zi' = zi + 1
    /\ UNCHANGED <<pc, zip_files, installed, no_unzip, reported, input_file,
                   nameVars, selVars, filtVars>>

\* faulty variant: the failure is not caught and ends the loop
ExtractFailedPropagates ==
    /\ pc = "unzipping"
    /\ zi <= Len(zip_files)
    /\ attempts' = [attempts EXCEPT ![zip_files[zi]] = @ + 1]
    /\ outcome' = [outcome EXCEPT ![zip_files[zi]] = "failed"]
    /\ effects' = effects \cup {"unzip"}
    /\ pc' = "unzip_aborted"
    /\ UNCHANGED <<zi, output_dir, zip_files, installed, no_unzip, reported,
                   input_file, nameVars, selVars, filtVars>>

\* unzip exits non-zero: except subprocess.CalledProcessError, reported
ExtractFailed ==
    /\ pc = "unzipping"
    /\ zi <= Len(zip_files)
    /\ attempts' = [attempts EXCEPT ![zip_files[zi]] = @ + 1]
    /\ outcome' = [outcome EXCEPT ![zip_files[zi]] = "failed"]
    /\ effects' = effects \cup {"unzip"}
    /\ zi' = zi + 1
    /\ UNCHANGED <<pc, output_dir, zip_files, installed, no_unzip, reported,
                   input_file, nameVars, selVars, filtVars>>

\* running unzip raises another exception: except Exception, reported
ExtractError ==
    /\ pc = "unzipping"
    /\ zi <= Len(zip_files)
    /\ attempts' = [attempts EXCEPT ![zip_files[zi]] = @ + 1]
    /\ outcome' = [outcome EXCEPT ![zip_files[zi]] = "failed"]
    /\ effects' = effects \cup {"unzip"}
    /\ zi' = zi + 1
    /\ UNCHANGED <<pc, output_dir, zip_files, installed, no_unzip, reported,
                   input_file, nameVars, selVars, filtVars>>

\* the loop is over: "Unzipping and cleanup complete!"
UnzipComplete ==
    /\ pc = "unzipping"
    /\ zi > Len(zip_files)
    /\ pc' = "done"
    /\ UNCHANGED <<nameVars, selVars, filtVars, cmdVars, zipVars>>

(* Specification SpecUnzip: unzip_and_cleanup on an output directory.     *)

Archives == 1..MaxArchives

InitUnzip ==
    /\ pc = "unzip"
    /\ output_dir \in SUBSET Archives
    /\ zip_files = <<>> /\ zi = 1 /\ attempts = <<>> /\ outcome = <<>>
    /\ NamesIdle /\ SelectIdle /\ FilterIdle /\ CmdIdle

NextUnzip == ListArchives \/ ExtractOk \/ ExtractFailed \/ ExtractError \/ UnzipComplete

SpecUnzip == InitUnzip /\ [][NextUnzip]_vars

-----------------------------------------------------------------------------
(* CLI.download_command *)

Tools == {"aria2c", "unzip"}

\* Path(self.args.output_dir).mkdir(parents=True, exist_ok=True)
MakeOutputDir ==
    /\ pc = "start"
    /\ effects' = effects \cup {"mkdir"}
    /\ pc' = "check_aria2c"
    /\ UNCHANGED <<installed, no_unzip, reported, input_file,
                   nameVars, selVars, filtVars, zipVars>>

\* run_checks: "which aria2c" succeeds
Aria2cFound ==
    /\ pc = "check_aria2c"
    /\ "aria2c" \in installed
    /\ pc' = "check_unzip"
    /\ UNCHANGED <<nameVars, selVars, filtVars, cmdVars, zipVars>>

\* run_checks: "which aria2c" fails, sys.exit(1)
Aria2cMissing ==
    /\ pc = "check_aria2c"
    /\ "aria2c" \notin installed
    /\ pc' = "exit"
    /\ UNCHANGED <<nameVars, selVars, filtVars, cmdVars, zipVars>>

\* run_checks: "which unzip" succeeds
UnzipFound ==
    /\ pc = "check_unzip"
    /\ "unzip" \in installed
    /\ pc' = "get_links"
    /\ UNCHANGED <<nameVars, selVars, filtVars, cmdVars, zipVars>>

\* run_checks: "which unzip" fails, sys.exit(1)
UnzipMissing ==
    /\ pc = "check_unzip"
    /\ "unzip" \notin installed
    /\ pc' = "exit"
    /\ UNCHANGED <<nameVars, selVars, filtVars, cmdVars, zipVars>>

\* The directory listings the command may find: the archives of a
\* catalogue, any of them absent, in the order of the page.
Catalogue ==
    << Host \o tA \o tUSA \o DotZip,
       Host \o tA \o tUSA \o tRev1 \o DotZip,
       Host \o tB \o tEU \o DotZip,
       Host \o tUSADir \o tB \o tEU \o DotZip >>

RECURSIVE Listing(_, _)
Listing(k, present) ==
    IF k > Len(Catalogue) THEN <<>>
    ELSE (IF k \in present THEN <<Catalogue[k]>> ELSE <<>>) \o Listing(k + 1, present)

Listings == {Listing(1, present) : present \in SUBSET (1..Len(Catalogue))}

\* links = get_links(url), the page fetched; "if not links: return"
GetLinks ==
    /\ pc = "get_links"
    /\ effects' = effects \cup {"fetch"}
    /\ links' \in Listings
    /\ pc' = IF links' = <<>> THEN "done" ELSE "read_games"
    /\ UNCHANGED <<games, region, canonical_map, gi, ratio, final_links, matched_games,
                   matched_links, installed, no_unzip, reported, input_file,
                   nameVars, selVars, zipVars>>

\* get_links: the request raises, [] is returned; "if not links: return"
FetchFailed ==
    /\ pc = "get_links"
    /\ effects' = effects \cup {"fetch"}
    /\ links' = <<>>
    /\ pc' = IF links' = <<>> THEN "done" ELSE "read_games"
    /\ UNCHANGED <<games, region, canonical_map, gi, ratio, final_links, matched_games,
                   matched_links, installed, no_unzip, reported, input_file,
                   nameVars, selVars, zipVars>>

\* games = read_games_list(path), the file read; "if not games: return"
ReadGamesList ==
    /\ pc = "read_games"
    /\ effects' = effects \cup {"read"}
    /\ games' \in SeqsUpTo(Titles, MaxGames)
    /\ pc' = IF games' = <<>> THEN "done" ELSE "filter"
    /\ UNCHANGED <<links, region, canonical_map, gi, ratio, final_links, matched_games,
                   matched_links, installed, no_unzip, reported, input_file,
                   nameVars, selVars, zipVars>>

\* read_games_list: FileNotFoundError, [] is returned; "if not games: return"
GamesListMissing ==
    /\ pc = "read_games"
    /\ effects' = effects \cup {"read"}
    /\ games' = <<>>
    /\ pc' = IF games' = <<>> THEN "done" ELSE "filter"
    /\ UNCHANGED <<links, region, canonical_map, gi, ratio, final_links, matched_games,
                   matched_links, installed, no_unzip, reported, input_file,
                   nameVars, selVars, zipVars>>

\* faulty variant: the command goes on with an empty list of matched links
NoMatchesGoesOn ==
    /\ pc = "matched"
    /\ matched_links = <<>>
    /\ pc' = "write"
    /\ UNCHANGED <<nameVars, selVars, filtVars, cmdVars, zipVars>>

\* "if not matched_links: ... return": the general message only
NoMatches ==
    /\ pc = "matched"
    /\ matched_links = <<>>
    /\ pc' = "done"
    /\ UNCHANGED <<nameVars, selVars, filtVars, cmdVars, zipVars>>

\* missing_games = set(games) - matched_games, each printed
ReportMissing ==
    /\ pc = "matched"
    /\ matched_links /= <<>>
    /\ reported' = SeqRange(games) \ matched_games
    /\ pc' = "write"
    /\ UNCHANGED <<installed, no_unzip, effects, input_file,
                   nameVars, selVars, filtVars, zipVars>>

\* write_links_to_file(matched_links, path): one link per line
WriteLinks ==
    /\ pc = "write"
    /\ input_file' = matched_links
    /\ effects' = effects \cup {"write"}
    /\ pc' = "download"
    /\ UNCHANGED <<installed, no_unzip, reported, nameVars, selVars, filtVars, zipVars>>

\* download_roms: aria2c exits with 0; any of the files may have arrived
DownloadOk ==
    /\ pc = "download"
    /\ effects' = effects \cup {"aria2c"}
    /\ output_dir' \in SUBSET (1..Len(input_file))
    /\ pc' = IF no_unzip THEN "done" ELSE "unzip"
    /\ UNCHANGED <<installed, no_unzip, reported, input_file, zip_files, zi, attempts,
                   outcome, nameVars, selVars, filtVars>>

\* download_roms: aria2c exits non-zero, CalledProcessError is reported
DownloadFailed ==
    /\ pc = "download"
    /\ effects' = effects \cup {"aria2c"}
    /\ output_dir' \in SUBSET (1..Len(input_file))
    /\ pc' = IF no_unzip THEN "done" ELSE "unzip"
    /\ UNCHANGED <<installed, no_unzip, reported, input_file, zip_files, zi, attempts,
                   outcome, nameVars, selVars, filtVars>>

Init ==
    /\ pc = "start"
    /\ installed \in SUBSET Tools
    /\ no_unzip \in BOOLEAN
    /\ region \in Regions
    /\ effects = {} /\ reported = {} /\ input_file = <<>>
    /\ links = <<>> /\ games = <<>>
    /\ canonical_map = <<>> /\ gi = 1 /\ ratio = <<>>
    /\ final_links = <<>> /\ matched_games = {} /\ matched_links = <<>>
    /\ NamesIdle /\ SelectIdle /\ ZipIdle

Next ==
    \/ MakeOutputDir
    \/ Aria2cFound \/ Aria2cMissing \/ UnzipFound \/ UnzipMissing
    \/ GetLinks \/ FetchFailed
    \/ ReadGamesList \/ GamesListMissing
    \/ BuildCanonicalMap \/ GameMatched \/ GameUnmatched \/ ReturnLinks
    \/ NoMatches \/ ReportMissing
    \/ WriteLinks
    \/ DownloadOk \/ DownloadFailed
    \/ ListArchives \/ ExtractOk \/ ExtractFailed \/ ExtractError \/ UnzipComplete

Spec == Init /\ [][Next]_vars

-----------------------------------------------------------------------------
(* The claims about the download command. *)

NoDuplicates(q) == \A a, b \in 1..Len(q) : a /= b => q[a] /= q[b]

\* C5: the list filter_links returns, and the list written to the
\* downloader's input file, hold no link twice, also when several
\* requested titles resolve to the same selected link.
FinalLinksAreDistinct ==
    /\ NoDuplicates(matched_links)
    /\ NoDuplicates(input_file)
    /\ pc = "matched" => SeqRange(matched_links) = SeqRange(final_links)
    /\ "write" \in effects => input_file = matched_links

\* the input file was written after two requested titles were resolved to
\* the same link
FinalLinksAreDistinctWitness ==
    /\ "write" \in effects
    /\ ~NoDuplicates(final_links)
    /\ input_file /= <<>>

\* the best similarity of a requested title against all canonical titles
\* is below the cut-off
BestBelowCutoff(g) ==
    /\ g \in DOMAIN ratio
    /\ \A n \in DOMAIN ratio[g] : ratio[g][n] < ScoreCutoff

\* C6: in every run that reaches the matching step, each requested title
\* whose best similarity is below 85 yields no selected link and has been
\* reported as unmatched when the run ends, also in the run where no
\* requested title matches.
UnmatchedTitlesAreReported ==
    (pc = "done" /\ "match" \in effects) =>
        \A k \in 1..Len(games) :
            BestBelowCutoff(games[k]) =>
                /\ games[k] \notin matched_games
                /\ games[k] \in reported

\* C7: the matching step runs only if links were found and the games list
\* is not empty; the link file is written and the downloader invoked only
\* if a requested title matched; in each of the three short-circuit cases
\* the run ends without invoking the downloader or the extractor.
ShortCircuitsSkipLaterSteps ==
    /\ "match" \in effects => (links /= <<>> /\ games /= <<>>)
    /\ ("write" \in effects \/ "aria2c" \in effects) => matched_games /= {}
    /\ pc = "read_games" => links /= <<>>
    /\ pc = "filter" => games /= <<>>
    /\ pc \in {"write", "download", "unzip", "unzipping"} => matched_games /= {}
    /\ (pc = "done" /\ (links = <<>> \/ games = <<>> \/ matched_games = {})) =>
          /\ "write" \notin effects
          /\ "aria2c" \notin effects
          /\ "unzip" \notin effects

\* a run that matched no requested title has ended
ShortCircuitsSkipLaterStepsWitness ==
    /\ pc = "done"
    /\ "match" \in effects
    /\ links /= <<>> /\ games /= <<>>
    /\ matched_games = {}
    /\ "aria2c" \notin effects

\* C8: when aria2c or unzip is absent the command terminates before any
\* network or file-system activity: no directory created, no URL fetched,
\* no file read or written.
PreflightFailsBeforeAnyActivity == pc = "exit" => effects = {}

=============================================================================
